---- MODULE Spec2Model ----
(***************************************************************************)
(* Input-normalisation and viewport layer of Spaceballs (web/main.ts and   *)
(* pages/main.js): the pending viewport size channel, the clipboard relay, *)
(* the on-screen button bridge and the two analog sticks.                  *)
(*                                                                         *)
(* JavaScript numbers are binary floating point.  They are modelled as     *)
(* exact rationals <<n, d>> that every arithmetic operation rounds to the  *)
(* nearest value with SignificandBits significant bits (ties to even), the *)
(* rounding of IEEE 754 with a narrower significand than binary64.         *)
(***************************************************************************)
EXTENDS Integers, Sequences, FiniteSets, TLC

\* ---------------------------------------------------------------------
\* Bounds of the model
\* ---------------------------------------------------------------------
SignificandBits == 6
MaxOutstanding == 2
MaxBurst == 2

\* ---------------------------------------------------------------------
\* Numbers
\* ---------------------------------------------------------------------
\* null is the empty tuple; a present value is a non-empty tuple
Null == <<>>

Abs(i) == IF i < 0 THEN 0 - i ELSE i

RECURSIVE Gcd(_, _)
Gcd(a, b) == IF b = 0 THEN a ELSE Gcd(b, a % b)

RECURSIVE Pow2(_)
Pow2(k) == IF k = 0 THEN 1 ELSE 2 * Pow2(k - 1)

\* the rational n/d in lowest terms with a positive denominator
Rat(n, d) ==
    LET g == Gcd(Abs(n), Abs(d))
        s == IF d < 0 THEN 0 - 1 ELSE 1
    IN  <<(s * n) \div g, (s * d) \div g>>

Num(k) == <<k, 1>>

RatLt(a, b) == a[1] * b[2] < b[1] * a[2]
RatLe(a, b) == a[1] * b[2] <= b[1] * a[2]
RatGt(a, b) == RatLt(b, a)

\* nearest integer to n/d (n >= 0, d > 0), ties to the even integer
RoundHalfEven(n, d) ==
    LET q == n \div d
        r == n % d
    IN  IF 2 * r > d \/ (2 * r = d /\ q % 2 = 1) THEN q + 1 ELSE q

\* a significand m has SignificandLow <= m < SignificandHigh
SignificandHigh == Pow2(SignificandBits)
SignificandLow == Pow2(SignificandBits - 1)

\* n/d > 0 rounded to SignificandBits significant bits
RECURSIVE RoundPos(_, _)
RoundPos(n, d) ==
    IF n >= d * SignificandHigh
    THEN LET h == RoundPos(n, 2 * d) IN Rat(2 * h[1], h[2])
    ELSE IF n < d * SignificandLow
         THEN LET t == RoundPos(2 * n, d) IN Rat(t[1], 2 * t[2])
         ELSE <<RoundHalfEven(n, d), 1>>

\* the floating-point number nearest to the rational q
Round(q) ==
    IF q[1] = 0 THEN <<0, 1>>
    ELSE IF q[1] < 0
         THEN LET p == RoundPos(0 - q[1], q[2]) IN <<0 - p[1], p[2]>>
         ELSE RoundPos(q[1], q[2])

\* the JavaScript operators a / b and a * b on numbers
FDiv(a, b) == Round(Rat(a[1] * b[2], a[2] * b[1]))
FMul(a, b) == Round(Rat(a[1] * b[1], a[2] * b[2]))

\* ---------------------------------------------------------------------
\* Host environment
\* ---------------------------------------------------------------------
\* native size (c.width, c.height) of the canvas the engine created
CanvasSizes == {<<4, 3>>, <<2, 13>>, <<5, 7>>}
\* document.body.clientWidth and clientHeight the host can take
ClientWidths == {2, 5, 8}
ClientHeights == {3, 7, 13}

\* the requests ids the engine passes (entity indices)
Ids == {1, 2}
\* what navigator.clipboard.readText() can resolve with
Texts == {"", "hello"}
\* what it can reject with; "" stands for the falsy rejection values
Rejections == {"", "NotAllowedError"}

\* the two revisions of the controls: the first has four direction buttons
\* and space, the second two sticks and the buttons C, F and space
Revisions == {"wasd", "sticks"}
Classes(rev) ==
    IF rev = "wasd"
    THEN {"key_w", "key_a", "key_s", "key_d", "key_space"}
    ELSE {"key_c", "key_f", "key_space"}
\* the buttons of the controls panels of a revision: [side, class]
ButtonsOf(rev) == [side : {"left", "right"}, class : Classes(rev)]
Buttons == ButtonsOf("wasd") \cup ButtonsOf("sticks")
PressTypes == {"mousedown", "touchstart"}
ReleaseTypes == {"mouseup", "touchend", "touchcancel"}

\* the orientations of the device: the type screen.orientation reports (as
\* the sequence of its characters) and the angle window.orientation reports
Landscape == <<"l", "a", "n", "d", "s", "c", "a", "p", "e">>
Portrait == <<"p", "o", "r", "t", "r", "a", "i", "t">>
Primary == <<"-", "p", "r", "i", "m", "a", "r", "y">>
Secondary == <<"-", "s", "e", "c", "o", "n", "d", "a", "r", "y">>
Orientations ==
    {[type |-> Portrait \o Primary, angle |-> 0],
     [type |-> Landscape \o Primary, angle |-> 90],
     [type |-> Portrait \o Secondary, angle |-> 180],
     [type |-> Landscape \o Secondary, angle |-> 0 - 90]}
\* what isLandscape can be handed: the four type names of ScreenOrientation,
\* also a name that is the prefix alone and one shorter than the prefix, and
\* the angles of window.orientation, also one it does not take
OrientationTypes ==
    {Portrait \o Primary, Landscape \o Primary, Portrait \o Secondary,
     Landscape \o Secondary, Landscape, <<"l", "a", "n", "d">>}
Angles == {0 - 90, 0, 90, 180, 270}
AllOrientations == [type : OrientationTypes, angle : Angles]
\* which orientation API the browser has: screen.orientation, the legacy
\* window.orientation, or neither
OrientationApis == {"screen", "window", "none"}

\* the page's URL: the parameters of its query, in order, as the author of
\* the link wrote them; a value is <<>> when the parameter has no "="
Scene == <<"s", "c", "e", "n", "e">>
ParamNames == {Scene, <<"s", "c", "e", "n", "e", "s">>, <<"x">>}
ParamValues == {<<>>, <<"m", "a", "p">>, <<"a", " ", "b">>}
Params == [name : ParamNames, value : {<<>>} \cup {<<v>> : v \in ParamValues}]
MaxParams == 2
Queries == UNION {[1..n -> Params] : n \in 0..MaxParams}

VARIABLES
    canvas,         \* <<c.width, c.height>>
    body,           \* <<document.body.clientWidth, document.body.clientHeight>>
    query,          \* the parameters of the query of the page's URL
    revision,       \* the revision of the controls the page runs
    mobile,         \* what detectMob() answers on this device
    orientationApi, \* the orientation API of the browser
    orientation,    \* the device's current orientation
    runState,       \* "init": run() not called, "done": it returned, "threw"
    onresize,       \* TRUE once run() has installed the resize handler
    playArea,       \* window.playArea: Null or <<width, height>>
    sizeRet,        \* <<>> or <<r>>: what the last getNewWindowSize() returned
    recalcs,        \* recalculateCanvasSize calls since the last getNewWindowSize
    pollAfter,      \* the value of recalcs when the last getNewWindowSize ran
    detectRet,      \* <<>> or <<b>>: what the last detectWindowResize() returned
    firstPoll,      \* <<>> or <<r>>: what the first getNewWindowSize() after run() returned
    pasteBufferMap, \* window.pasteBufferMap: a function from the stored ids
    reads,          \* reads[id]: readText() promises of id not yet settled
    settled,        \* settled[id]: <<>> or the outcome of id's latest settled
                    \* read that no getPasteBuffer(id) has taken yet
    overwritten,    \* overwritten[id]: <<>> or the outcome, taken by no
                    \* getPasteBuffer(id), that id's latest settlement replaced
    pasteRet,       \* <<>> or what the last getPasteBuffer did: its id, the
                    \* outcome it took, the one that outcome had replaced,
                    \* and what it returned or threw
    bound,          \* the buttons whose handlers setupControls installed
    inputs,         \* the latest two interactions on buttons, the older first
    events,         \* events[i]: the events dispatched on the canvas by inputs[i]
    panelVisible,   \* the controls panels are visible
    sticksPosition, \* window.sticksPosition
    joysticks,      \* window.joysticks: Null or <<left, right>>
    widgets,        \* the stick widgets created and not destroyed
    listening,      \* the orientation-change listener is installed
    dragging,       \* the sticks (1: left, 2: right) with a drag in progress
    lastEvent,      \* lastEvent[k]: the handler of stick k that ran last,
                    \* "move" or "end"; "none" when none has run yet
    sticksRet,      \* <<>> or <<p>>: what the last getSticksPosition() returned
    sceneRet        \* <<>> or <<s>>: what the last getSceneFromUrl() returned

envVars == <<canvas, query, revision, mobile, orientationApi>>
viewVars == <<playArea, sizeRet, recalcs, pollAfter, detectRet, firstPoll>>
pasteVars == <<pasteBufferMap, reads, settled, overwritten, pasteRet>>
buttonVars == <<inputs, events>>
stickVars == <<sticksPosition, joysticks, widgets, dragging, lastEvent,
              sticksRet>>
setupVars == <<runState, onresize, bound, panelVisible, listening>>
vars == <<envVars, body, orientation, viewVars, pasteVars, buttonVars,
          stickVars, setupVars, sceneRet>>

Init ==
    /\ canvas \in CanvasSizes
    /\ body \in ClientWidths \X ClientHeights
    /\ query \in Queries
    /\ revision \in Revisions
    /\ mobile \in BOOLEAN
    /\ orientationApi \in OrientationApis
    /\ orientation \in AllOrientations
    /\ runState = "init"
    /\ onresize = FALSE
    /\ playArea = Null
    /\ sizeRet = <<>>
    /\ recalcs = 0
    /\ pollAfter = 0
    /\ detectRet = <<>>
    /\ firstPoll = <<>>
    /\ pasteBufferMap = <<>>
    /\ reads = [id \in Ids |-> 0]
    /\ settled = [id \in Ids |-> <<>>]
    /\ overwritten = [id \in Ids |-> <<>>]
    /\ pasteRet = <<>>
    /\ bound = {}
    /\ inputs = <<>>
    /\ events = <<>>
    /\ panelVisible = FALSE
    /\ sticksPosition = <<Num(0), Num(0)>>
    /\ joysticks = Null
    /\ widgets = 0
    /\ listening = FALSE
    /\ dragging = {}
    /\ lastEvent = <<"none", "none">>
    /\ sticksRet = <<>>
    /\ sceneRet = <<>>

\* ---------------------------------------------------------------------
\* ViewportSizer
\* ---------------------------------------------------------------------
Min(a, b) == IF a < b THEN a ELSE b

\* the pair recalculateCanvasSize(c) publishes for canvas c and body b
recalculateCanvasSize(c, b) ==
    LET ratio == FDiv(Num(c[1]), Num(c[2]))
        wid == Num(b[1])
        hei == Num(b[2])
    IN  IF RatGt(FDiv(wid, hei), ratio)
        THEN <<FMul(ratio, hei), hei>>
        ELSE <<wid, FDiv(wid, ratio)>>

\* (mutant) a size still unread is kept and the new one dropped
Publish_KeepsUnread(b) ==
    /\ playArea' = IF playArea = Null
                   THEN recalculateCanvasSize(canvas, b)
                   ELSE playArea
    /\ recalcs' = Min(recalcs + 1, MaxBurst)

\* window.playArea = [wid, hei] for the body b
Publish(b) ==
    /\ playArea' = recalculateCanvasSize(canvas, b)
    /\ recalcs' = Min(recalcs + 1, MaxBurst)

\* the host resizes the body; the resize event calls onresize, if installed
HostResize(w, h) ==
    /\ body' = <<w, h>>
    /\ IF onresize THEN Publish(body') ELSE UNCHANGED <<playArea, recalcs>>
    /\ UNCHANGED <<envVars, sceneRet, orientation, sizeRet, pollAfter, detectRet, firstPoll,
                   pasteVars, buttonVars, stickVars, setupVars>>

\* (mutant) the pending size is returned and not cleared
getNewWindowSize_KeepsPending ==
    /\ sizeRet' = <<playArea>>
    /\ pollAfter' = recalcs
    /\ recalcs' = 0
    /\ firstPoll' = IF runState = "done" /\ firstPoll = <<>> THEN <<playArea>>
                                                            ELSE firstPoll
    /\ UNCHANGED <<envVars, sceneRet, body, orientation, playArea, detectRet, pasteVars,
                   buttonVars, stickVars, setupVars>>

getNewWindowSize ==
    /\ sizeRet' = <<playArea>>
    /\ playArea' = Null
    /\ pollAfter' = recalcs
    /\ recalcs' = 0
    /\ firstPoll' = IF runState = "done" /\ firstPoll = <<>> THEN <<playArea>>
                                                            ELSE firstPoll
    /\ UNCHANGED <<envVars, sceneRet, body, orientation, detectRet, pasteVars,
                   buttonVars, stickVars, setupVars>>

\* (mutant) the query takes the pending size away
detectWindowResize_Clears ==
    /\ detectRet' = <<playArea # Null>>
    /\ playArea' = Null
    /\ UNCHANGED <<envVars, sceneRet, body, orientation, sizeRet, recalcs, firstPoll,
                   pollAfter, pasteVars, buttonVars, stickVars, setupVars>>

detectWindowResize ==
    /\ detectRet' = <<playArea # Null>>
    /\ UNCHANGED <<envVars, sceneRet, body, orientation, playArea, sizeRet, recalcs,
                   firstPoll,
                   pollAfter, pasteVars, buttonVars, stickVars, setupVars>>

\* ---------------------------------------------------------------------
\* ClipboardRelay
\* ---------------------------------------------------------------------
PasteData(value, error) == [paste |-> value, error |-> error]

\* the truthiness of a string
Truthy(s) == s # ""

MapHas(m, k) == k \in DOMAIN m
\* (mutant) an entry already stored under k is kept and v dropped
MapSet_KeepsFirst(m, k, v) ==
    [x \in DOMAIN m \cup {k} |-> IF x \in DOMAIN m THEN m[x] ELSE v]
MapSet(m, k, v) == [x \in DOMAIN m \cup {k} |-> IF x = k THEN v ELSE m[x]]
\* (mutant) Map.clear() in place of Map.delete(k)
MapDelete_Clear(m, k) == <<>>
MapDelete(m, k) == [x \in DOMAIN m \ {k} |-> m[x]]

Returned(v) == [kind |-> "return", value |-> v]
Thrown(v) == [kind |-> "throw", value |-> v]
ReturnedUndefined == [kind |-> "undefined", value |-> ""]

\* (mutant) setPasteBuffer stores an empty entry until the read settles
setPasteBuffer_StoresPending(id) ==
    /\ reads[id] < MaxOutstanding
    /\ reads' = [reads EXCEPT ![id] = @ + 1]
    /\ pasteBufferMap' = MapSet(pasteBufferMap, id, PasteData("", ""))
    /\ UNCHANGED <<envVars, sceneRet, body, orientation, viewVars, settled, overwritten,
                   pasteRet, buttonVars, stickVars, setupVars>>

\* setPasteBuffer starts the read; nothing is stored until it settles
setPasteBuffer(id) ==
    /\ reads[id] < MaxOutstanding
    /\ reads' = [reads EXCEPT ![id] = @ + 1]
    /\ UNCHANGED <<envVars, sceneRet, body, orientation, viewVars, pasteBufferMap,
                   settled, overwritten, pasteRet, buttonVars, stickVars,
                   setupVars>>

\* the .then callback: readText() resolved with paste
ReadResolved(id, paste) ==
    /\ reads[id] > 0
    /\ reads' = [reads EXCEPT ![id] = @ - 1]
    /\ pasteBufferMap' = MapSet(pasteBufferMap, id, PasteData(paste, ""))
    /\ settled' = [settled EXCEPT ![id] = <<[ok |-> TRUE, value |-> paste]>>]
    /\ overwritten' = [overwritten EXCEPT ![id] = settled[id]]
    /\ UNCHANGED <<envVars, sceneRet, body, orientation, viewVars, pasteRet,
                   buttonVars, stickVars, setupVars>>

\* the .catch callback: readText() rejected with err
ReadRejected(id, err) ==
    /\ reads[id] > 0
    /\ reads' = [reads EXCEPT ![id] = @ - 1]
    /\ pasteBufferMap' = MapSet(pasteBufferMap, id, PasteData("", err))
    /\ settled' = [settled EXCEPT ![id] = <<[ok |-> FALSE, value |-> err]>>]
    /\ overwritten' = [overwritten EXCEPT ![id] = settled[id]]
    /\ UNCHANGED <<envVars, sceneRet, body, orientation, viewVars, pasteRet,
                   buttonVars, stickVars, setupVars>>

\* (mutant) an empty paste is taken for a missing one
PasteOutcome_FalsyText(clipboardData) ==
    IF Truthy(clipboardData.error)
    THEN Thrown(clipboardData.error)
    ELSE IF Truthy(clipboardData.paste)
         THEN Returned(clipboardData.paste)
         ELSE ReturnedUndefined

\* what getPasteBuffer returns or throws for the entry it found (the TypeScript
\* revision: throw new Error(clipboardData.error))
PasteOutcome(clipboardData) ==
    IF Truthy(clipboardData.error)
    THEN Thrown(clipboardData.error)
    ELSE Returned(clipboardData.paste)

\* the same in pages/main.js: "throw new clipboardData.error" constructs
\* nothing from a value that is no constructor and throws a TypeError
PasteOutcomePages(clipboardData) ==
    IF Truthy(clipboardData.error)
    THEN Thrown("TypeError")
    ELSE Returned(clipboardData.paste)

\* (mutant) the entry is read and left in the map
getPasteBuffer_NoDelete(id) ==
    /\ pasteRet' = <<[id |-> id, took |-> settled[id],
                      lost |-> overwritten[id],
                      out |-> IF MapHas(pasteBufferMap, id)
                              THEN PasteOutcome(pasteBufferMap[id])
                              ELSE ReturnedUndefined,
                      pages |-> IF MapHas(pasteBufferMap, id)
                                THEN PasteOutcomePages(pasteBufferMap[id])
                                ELSE ReturnedUndefined]>>
    /\ settled' = [settled EXCEPT ![id] = <<>>]
    /\ overwritten' = [overwritten EXCEPT ![id] = <<>>]
    /\ UNCHANGED <<envVars, sceneRet, body, orientation, viewVars, reads, pasteBufferMap,
                   buttonVars, stickVars, setupVars>>

getPasteBuffer(id) ==
    /\ IF MapHas(pasteBufferMap, id)
       THEN /\ pasteBufferMap' = MapDelete(pasteBufferMap, id)
            /\ pasteRet' = <<[id |-> id, took |-> settled[id],
                              lost |-> overwritten[id],
                              out |-> PasteOutcome(pasteBufferMap[id]),
                              pages |-> PasteOutcomePages(pasteBufferMap[id])]>>
       ELSE /\ pasteBufferMap' = pasteBufferMap
            /\ pasteRet' = <<[id |-> id, took |-> settled[id],
                              lost |-> overwritten[id],
                              out |-> ReturnedUndefined,
                              pages |-> ReturnedUndefined]>>
    /\ settled' = [settled EXCEPT ![id] = <<>>]
    /\ overwritten' = [overwritten EXCEPT ![id] = <<>>]
    /\ UNCHANGED <<envVars, sceneRet, body, orientation, viewVars, reads,
                   buttonVars, stickVars, setupVars>>

\* ---------------------------------------------------------------------
\* OrientationMonitor
\* ---------------------------------------------------------------------
StartsWith(str, prefix) ==
    /\ Len(str) >= Len(prefix)
    /\ SubSeq(str, 1, Len(prefix)) = prefix

\* the argument of isLandscape: a ScreenOrientation object or a number
OfScreen(o) == [number |-> FALSE, type |-> o.type, angle |-> o.angle]
OfWindow(o) == [number |-> TRUE, type |-> <<>>, angle |-> o.angle]

\* (mutant) the type is compared with one name
isLandscape_PrimaryOnly(arg) ==
    IF arg.number
    THEN arg.angle = 0 - 90 \/ arg.angle = 90
    ELSE arg.type = Landscape \o Primary

isLandscape(arg) ==
    IF arg.number
    THEN arg.angle = 0 - 90 \/ arg.angle = 90
    ELSE StartsWith(arg.type, Landscape)

\* screen.orientation || window.orientation, for a browser that has one
CurrentOrientation(o) ==
    IF orientationApi = "screen" THEN OfScreen(o) ELSE OfWindow(o)

\* ---------------------------------------------------------------------
\* AnalogStickTracker
\* ---------------------------------------------------------------------
STICK_SIZE_PORTRAIT == 200
STICK_SIZE_LANDSCAPE == 100

\* the unit-vector component a locked stick reports, and how far from its
\* centre a stick of the given size can be dragged
VectorComponents == {0 - 1, 1}
Distances(size) == {size \div 4, size \div 2}

Manager(size, lock) == [size |-> size, lock |-> lock]

\* (mutant) the old pair is left in the page when the new one is created
recreateJoysticks_NoDestroy(landscape) ==
    LET size == IF landscape THEN STICK_SIZE_LANDSCAPE ELSE STICK_SIZE_PORTRAIT
    IN  /\ joysticks' = <<Manager(size, "x"), Manager(size, "y")>>
        /\ widgets' = widgets + 2
        /\ dragging' = {}
        /\ UNCHANGED <<sticksPosition, lastEvent>>

\* destroys the old pair of managers, if any, and creates a new pair; the
\* drags of the destroyed widgets are gone, and no handler runs for them
recreateJoysticks(landscape) ==
    LET size == IF landscape THEN STICK_SIZE_LANDSCAPE ELSE STICK_SIZE_PORTRAIT
        destroyed == IF joysticks # Null THEN Len(joysticks) ELSE 0
    IN  /\ joysticks' = <<Manager(size, "x"), Manager(size, "y")>>
        /\ widgets' = (widgets - destroyed) + 2
        /\ dragging' = {}
        /\ UNCHANGED <<sticksPosition, lastEvent>>

\* the user puts a finger on stick k ("start": the code has no handler)
StickStart(k) ==
    /\ joysticks # Null
    /\ k \notin dragging
    /\ dragging' = dragging \cup {k}
    /\ UNCHANGED <<envVars, sceneRet, body, orientation, viewVars, pasteVars, buttonVars,
                   sticksPosition, joysticks, widgets, lastEvent, sticksRet, setupVars>>

\* data.vector.x * (data.distance / size) * 2 (vector.y for the right stick)
AxisValue(component, distance, size) ==
    FMul(FMul(Num(component), FDiv(Num(distance), Num(size))), Num(2))

\* (mutant) both move handlers write the first axis
StickMove_FirstAxis(k, component, distance) ==
    /\ k \in dragging
    /\ distance \in Distances(joysticks[k].size)
    /\ sticksPosition' = [sticksPosition EXCEPT
                            ![1] = AxisValue(component, distance, joysticks[k].size)]
    /\ lastEvent' = [lastEvent EXCEPT ![k] = "move"]
    /\ UNCHANGED <<envVars, sceneRet, body, orientation, viewVars, pasteVars,
                   buttonVars, joysticks, widgets, dragging, sticksRet, setupVars>>

\* the "move" handler of stick k
StickMove(k, component, distance) ==
    /\ k \in dragging
    /\ distance \in Distances(joysticks[k].size)
    /\ sticksPosition' = [sticksPosition EXCEPT
                            ![k] = AxisValue(component, distance, joysticks[k].size)]
    /\ lastEvent' = [lastEvent EXCEPT ![k] = "move"]
    /\ UNCHANGED <<envVars, sceneRet, body, orientation, viewVars, pasteVars, buttonVars,
                   joysticks, widgets, dragging, sticksRet, setupVars>>

\* the "end" handler of stick k
\* (mutant) the "end" handler leaves the axis where the last move put it
StickEnd_KeepsAxis(k) ==
    /\ k \in dragging
    /\ sticksPosition' = sticksPosition
    /\ lastEvent' = [lastEvent EXCEPT ![k] = "end"]
    /\ dragging' = dragging \ {k}
    /\ UNCHANGED <<envVars, sceneRet, body, orientation, viewVars, pasteVars, buttonVars,
                   joysticks, widgets, sticksRet, setupVars>>

StickEnd(k) ==
    /\ k \in dragging
    /\ sticksPosition' = [sticksPosition EXCEPT ![k] = Num(0)]
    /\ lastEvent' = [lastEvent EXCEPT ![k] = "end"]
    /\ dragging' = dragging \ {k}
    /\ UNCHANGED <<envVars, sceneRet, body, orientation, viewVars, pasteVars, buttonVars,
                   joysticks, widgets, sticksRet, setupVars>>

\* (mutant) a consuming read, as getNewWindowSize is: the axes are returned
\* and put back to 0
getSticksPosition_Recentres ==
    /\ sticksRet' = <<sticksPosition>>
    /\ sticksPosition' = <<Num(0), Num(0)>>
    /\ UNCHANGED <<envVars, sceneRet, body, orientation, viewVars, pasteVars, buttonVars,
                   joysticks, widgets, dragging, lastEvent, setupVars>>

getSticksPosition ==
    /\ sticksRet' = <<sticksPosition>>
    /\ UNCHANGED <<envVars, sceneRet, body, orientation, viewVars, pasteVars, buttonVars,
                   sticksPosition, joysticks, widgets, dragging, lastEvent, setupVars>>

\* the device turns; the listener setupControls installed recreates the sticks
OrientationChange(o) ==
    /\ o # orientation
    /\ orientation' = o
    /\ IF listening
       THEN recreateJoysticks(isLandscape(CurrentOrientation(o)))
       ELSE UNCHANGED <<sticksPosition, joysticks, widgets, dragging, lastEvent>>
    /\ UNCHANGED <<envVars, sceneRet, body, viewVars, pasteVars, buttonVars, sticksRet,
                   setupVars>>

\* ---------------------------------------------------------------------
\* InputBridge
\* ---------------------------------------------------------------------
\* (mutant) the C and F buttons are wired to each other's key
KeyOf_Swapped(class) ==
    CASE class = "key_w" -> [key |-> "w", code |-> "KeyW"]
      [] class = "key_a" -> [key |-> "a", code |-> "KeyA"]
      [] class = "key_s" -> [key |-> "s", code |-> "KeyS"]
      [] class = "key_d" -> [key |-> "d", code |-> "KeyD"]
      [] class = "key_f" -> [key |-> "c", code |-> "KeyC"]
      [] class = "key_c" -> [key |-> "f", code |-> "KeyF"]
      [] class = "key_space" -> [key |-> " ", code |-> "Space"]

\* (mutant) the key of the space buttons is spelt as its code
KeyOf_SpaceName(class) ==
    CASE class = "key_w" -> [key |-> "w", code |-> "KeyW"]
      [] class = "key_a" -> [key |-> "a", code |-> "KeyA"]
      [] class = "key_s" -> [key |-> "s", code |-> "KeyS"]
      [] class = "key_d" -> [key |-> "d", code |-> "KeyD"]
      [] class = "key_f" -> [key |-> "f", code |-> "KeyF"]
      [] class = "key_c" -> [key |-> "c", code |-> "KeyC"]
      [] class = "key_space" -> [key |-> "Space", code |-> "Space"]

\* the (key, code) setupControls gives the buttons of a class (the two
\* revisions agree on the class they share)
KeyOf(class) ==
    CASE class = "key_w" -> [key |-> "w", code |-> "KeyW"]
      [] class = "key_a" -> [key |-> "a", code |-> "KeyA"]
      [] class = "key_s" -> [key |-> "s", code |-> "KeyS"]
      [] class = "key_d" -> [key |-> "d", code |-> "KeyD"]
      [] class = "key_f" -> [key |-> "f", code |-> "KeyF"]
      [] class = "key_c" -> [key |-> "c", code |-> "KeyC"]
      [] class = "key_space" -> [key |-> " ", code |-> "Space"]

\* c.dispatchEvent(new KeyboardEvent(type, {key, code}))
fakePress(key, code, type) ==
    [target |-> "canvas", type |-> type, key |-> key, code |-> code]

\* (mutant) no handler for touchcancel
Handler_NoCancel(button, type) ==
    LET k == KeyOf(button.class)
    IN  IF type \in PressTypes
        THEN <<fakePress(k.key, k.code, "keydown")>>
        ELSE IF type = "touchcancel"
             THEN <<>>
             ELSE <<fakePress(k.key, k.code, "keyup")>>

\* what the handler setupOneButton installed for the DOM event type dispatches
\* (mutant) a release is dropped while the other button of the same key is
\* held, and a release that follows no press is dropped
Handler_TracksHeld(button, type) ==
    LET k == KeyOf(button.class)
        last == inputs[Len(inputs)]
        held == /\ inputs # <<>>
                /\ last.bound
                /\ last.type \in PressTypes
                /\ last.button.class = button.class
    IN  IF type \in PressTypes
        THEN <<fakePress(k.key, k.code, "keydown")>>
        ELSE IF held /\ last.button = button
             THEN <<fakePress(k.key, k.code, "keyup")>>
             ELSE <<>>

Handler(button, type) ==
    LET k == KeyOf(button.class)
    IN  IF type \in PressTypes
        THEN <<fakePress(k.key, k.code, "keydown")>>
        ELSE <<fakePress(k.key, k.code, "keyup")>>

\* the latest element of s, if any, and then x: the handlers keep no state,
\* and the latest two interactions are what the model remembers of them
Remember(s, x) ==
    IF s = <<>> THEN <<x>> ELSE <<s[Len(s)], x>>

\* the DOM event type reaches a button of the page; a button without
\* handlers is mute
Interact(button, type) ==
    /\ button \in ButtonsOf(revision)
    /\ inputs' = Remember(inputs, [button |-> button, type |-> type,
                                    bound |-> button \in bound])
    /\ events' = Remember(events,
                          IF button \in bound THEN Handler(button, type) ELSE <<>>)
    /\ UNCHANGED <<envVars, sceneRet, body, orientation, viewVars, pasteVars, stickVars,
                   setupVars>>

\* ---------------------------------------------------------------------
\* The scene parameter
\* ---------------------------------------------------------------------
\* how a link writes a value: a space as "+"
RECURSIVE Replace(_, _, _)
Replace(str, from, to) ==
    IF str = <<>> THEN <<>>
    ELSE <<IF Head(str) = from THEN to ELSE Head(str)>>
             \o Replace(Tail(str), from, to)

\* window.location.search: "" for a URL without parameters, else "?" and
\* the parameters, name or name=value, joined with "&"
RECURSIVE Joined(_)
Joined(ps) ==
    IF ps = <<>> THEN <<>>
    ELSE LET p == Head(ps)
             one == p.name \o (IF p.value = <<>> THEN <<>>
                               ELSE <<"=">> \o Replace(p.value[1], " ", "+"))
         IN  IF Tail(ps) = <<>> THEN one ELSE one \o <<"&">> \o Joined(Tail(ps))
LocationSearch(q) == IF q = <<>> THEN <<>> ELSE <<"?">> \o Joined(q)

\* String.prototype.slice(1)
Slice1(str) == SubSeq(str, 2, Len(str))

\* the index of the first ch in str, 0 when there is none
RECURSIVE IndexOf(_, _)
IndexOf(str, ch) ==
    IF str = <<>> THEN 0
    ELSE IF Head(str) = ch THEN 1
         ELSE LET i == IndexOf(Tail(str), ch) IN IF i = 0 THEN 0 ELSE i + 1

\* new URLSearchParams(str): the pieces between "&", the empty ones left
\* out; each is cut at its first "=" (a piece without "=" has the value ""),
\* and "+" is decoded as a space
RECURSIVE URLSearchParams(_)
URLSearchParams(str) ==
    IF str = <<>> THEN <<>>
    ELSE LET amp == IndexOf(str, "&")
             piece == IF amp = 0 THEN str ELSE SubSeq(str, 1, amp - 1)
             rest == IF amp = 0 THEN <<>> ELSE SubSeq(str, amp + 1, Len(str))
             eq == IndexOf(piece, "=")
             name == IF eq = 0 THEN piece ELSE SubSeq(piece, 1, eq - 1)
             value == IF eq = 0 THEN <<>> ELSE SubSeq(piece, eq + 1, Len(piece))
         IN  (IF piece = <<>> THEN <<>>
              ELSE <<[name |-> Replace(name, "+", " "),
                      value |-> Replace(value, "+", " ")]>>)
             \o URLSearchParams(rest)

\* searchParams.get(param): <<>> (null) or the value of the first parameter
\* of that name
RECURSIVE SearchParamsGet(_, _)
SearchParamsGet(params, param) ==
    IF params = <<>> THEN <<>>
    ELSE IF Head(params).name = param THEN <<Head(params).value>>
         ELSE SearchParamsGet(Tail(params), param)

\* (mutant) null becomes the empty string
StringOf_Empty(result) == IF result = <<>> THEN <<>> ELSE result[1]
\* String(result)
StringOf(result) ==
    IF result = <<>> THEN <<"n", "u", "l", "l">> ELSE result[1]

getUrlParam(search, param) ==
    StringOf(SearchParamsGet(URLSearchParams(Slice1(search)), param))

getSceneFromUrl ==
    /\ sceneRet' = <<getUrlParam(LocationSearch(query), Scene)>>
    /\ UNCHANGED <<envVars, body, orientation, viewVars, pasteVars, buttonVars,
                   stickVars, setupVars>>

\* ---------------------------------------------------------------------
\* Startup
\* ---------------------------------------------------------------------
\* setupControls throws in isLandscape(undefined) when the browser has
\* neither orientation API: undefined has no property "type"
SetupThrows == mobile /\ revision = "sticks" /\ orientationApi = "none"

\* (mutant) startup installs the resize handler and computes no size
run_NoInitialSize ==
    /\ runState = "init"
    /\ bound' = IF mobile THEN ButtonsOf(revision) ELSE bound
    /\ IF SetupThrows
       THEN /\ runState' = "threw"
            /\ UNCHANGED <<joysticks, widgets, dragging, sticksPosition, lastEvent,
                           listening, panelVisible, playArea, recalcs, onresize>>
       ELSE /\ runState' = "done"
            /\ IF mobile /\ revision = "sticks"
               THEN /\ recreateJoysticks(isLandscape(CurrentOrientation(orientation)))
                    /\ listening' = TRUE
               ELSE UNCHANGED <<joysticks, widgets, dragging, sticksPosition, lastEvent,
                                listening>>
            /\ panelVisible' = (mobile \/ panelVisible)
            /\ UNCHANGED <<playArea, recalcs>>
            /\ onresize' = TRUE
    /\ UNCHANGED <<envVars, sceneRet, body, orientation, sizeRet, pollAfter, detectRet, firstPoll,
                   pasteVars, buttonVars, sticksRet>>

run ==
    /\ runState = "init"
    /\ bound' = IF mobile THEN ButtonsOf(revision) ELSE bound
    /\ IF SetupThrows
       THEN /\ runState' = "threw"
            /\ UNCHANGED <<joysticks, widgets, dragging, sticksPosition, lastEvent,
                           listening, panelVisible, playArea, recalcs, onresize>>
       ELSE /\ runState' = "done"
            /\ IF mobile /\ revision = "sticks"
               THEN /\ recreateJoysticks(isLandscape(CurrentOrientation(orientation)))
                    /\ listening' = TRUE
               ELSE UNCHANGED <<joysticks, widgets, dragging, sticksPosition, lastEvent,
                                listening>>
            /\ panelVisible' = (mobile \/ panelVisible)
            /\ Publish(body)
            /\ onresize' = TRUE
    /\ UNCHANGED <<envVars, sceneRet, body, orientation, sizeRet, pollAfter, detectRet, firstPoll,
                   pasteVars, buttonVars, sticksRet>>

\* ---------------------------------------------------------------------
\* Specifications
\* ---------------------------------------------------------------------
Resize == \E w \in ClientWidths, h \in ClientHeights : HostResize(w, h)
IssueRead == \E id \in Ids : setPasteBuffer(id)
Resolve == \E id \in Ids, paste \in Texts : ReadResolved(id, paste)
Reject == \E id \in Ids, err \in Rejections : ReadRejected(id, err)
Poll == \E id \in Ids : getPasteBuffer(id)
Press == \E b \in Buttons, t \in PressTypes : Interact(b, t)
Release == \E b \in Buttons, t \in ReleaseTypes : Interact(b, t)
Start == \E k \in {1, 2} : StickStart(k)
Move == \E k \in {1, 2}, c \in VectorComponents,
           d \in Distances(STICK_SIZE_PORTRAIT) \cup Distances(STICK_SIZE_LANDSCAPE) :
            StickMove(k, c, d)
End == \E k \in {1, 2} : StickEnd(k)
Turn == \E o \in Orientations : OrientationChange(o)
Rotate == \E o \in AllOrientations : OrientationChange(o)

\* Each part of the layer is checked with the rest of the page at rest: the
\* actions of the other parts do not write its variables.
UprightPhone == [type |-> Portrait \o Primary, angle |-> 0]
SmallHost == canvas = <<4, 3>> /\ body = <<8, 3>>
PlainUrl == query = <<>>

\* the viewport channel
InitView ==
    /\ PlainUrl
    /\ revision = "sticks"
    /\ orientation = UprightPhone
    /\ Init
NextView == run \/ Resize \/ getNewWindowSize \/ detectWindowResize
SpecView == InitView /\ [][NextView]_vars

\* the clipboard relay
InitPaste ==
    /\ SmallHost
    /\ PlainUrl
    /\ revision = "sticks"
    /\ orientation = UprightPhone
    /\ mobile = FALSE
    /\ orientationApi = "screen"
    /\ Init
NextPaste == IssueRead \/ Resolve \/ Reject \/ Poll
SpecPaste == InitPaste /\ [][NextPaste]_vars

\* the buttons
InitButtons == SmallHost /\ PlainUrl /\ orientation = UprightPhone /\ Init
NextButtons == run \/ Press \/ Release
SpecButtons == InitButtons /\ [][NextButtons]_vars

\* the sticks
InitSticks ==
    /\ SmallHost
    /\ PlainUrl
    /\ revision = "sticks"
    /\ orientation \in Orientations
    /\ Init
NextSticks == run \/ Start \/ Move \/ End \/ Turn \/ getSticksPosition
SpecSticks == InitSticks /\ [][NextSticks]_vars

\* the viewport channel of a device that turns
InitTurn ==
    /\ canvas = <<4, 3>>
    /\ PlainUrl
    /\ revision = "sticks"
    /\ orientation \in Orientations
    /\ Init
NextTurn == run \/ Resize \/ Turn \/ getNewWindowSize
SpecTurn == InitTurn /\ [][NextTurn]_vars

\* the engine's reads of the axes, with a size pending and the clipboard
\* relay at work
InitRead ==
    /\ SmallHost
    /\ PlainUrl
    /\ revision = "sticks"
    /\ mobile = TRUE
    /\ orientationApi = "screen"
    /\ orientation = UprightPhone
    /\ Init
NextRead ==
    \/ run
    \/ Start
    \/ Move
    \/ End
    \/ getSticksPosition
    \/ setPasteBuffer(1)
    \/ ReadResolved(1, "hello")
SpecRead == InitRead /\ [][NextRead]_vars

\* the scene parameter of the URL
InitUrl ==
    /\ SmallHost
    /\ revision = "sticks"
    /\ mobile = TRUE
    /\ orientationApi = "screen"
    /\ orientation = UprightPhone
    /\ Init
NextUrl == getSceneFromUrl \/ run
SpecUrl == InitUrl /\ [][NextUrl]_vars

\* the classification of the orientation, at setup and at every change
InitClassify ==
    /\ SmallHost
    /\ PlainUrl
    /\ revision = "sticks"
    /\ mobile = TRUE
    /\ Init
NextClassify == run \/ Rotate \/ Start \/ Move
SpecClassify == InitClassify /\ [][NextClassify]_vars

Next == NextView \/ NextPaste \/ NextButtons \/ NextSticks \/ NextTurn
        \/ NextRead \/ NextUrl \/ NextClassify
Spec == Init /\ [][Next]_vars

\* ---------------------------------------------------------------------
\* Claims about the viewport channel (SpecView)
\* ---------------------------------------------------------------------
Fit == recalculateCanvasSize(canvas, body)

\* C1: the first getNewWindowSize after a recalculateCanvasSize returns the
\* size computed from the body and clears the slot; a getNewWindowSize with
\* no computation since the one before it returns null.
C1_ExactlyOnce ==
    sizeRet # <<>> =>
        /\ pollAfter = 0 => sizeRet[1] = Null
        /\ (pollAfter > 0 /\ recalcs = 0) => sizeRet[1] = Fit
        /\ recalcs = 0 => playArea = Null

\* a second poll in a row after startup: it found the slot empty
C1_Witness ==
    /\ runState = "done"
    /\ recalcs = 0
    /\ pollAfter = 0
    /\ sizeRet = <<Null>>

\* C5: the slot holds one size, the latest computed; after a burst of
\* computations the next getNewWindowSize returns the size of the latest
\* host dimensions and empties the slot.
C5_LastWriteWins ==
    /\ playArea # Null => playArea = Fit
    /\ recalcs > 0 => playArea = Fit
    /\ (sizeRet # <<>> /\ pollAfter > 1 /\ recalcs = 0) =>
           (sizeRet[1] = Fit /\ playArea = Null)

\* a poll after a burst of two or more computations
C5_Witness ==
    /\ sizeRet # <<>>
    /\ pollAfter > 1
    /\ recalcs = 0
    /\ sizeRet[1] = Fit
    /\ canvas = <<4, 3>>
    /\ body = <<5, 7>>

\* |a - b| is within floating tolerance of b: two roundings' worth
Close(a, b) ==
    Abs(a[1] * b[2] - b[1] * a[2]) * Pow2(SignificandBits - 2) <= Abs(b[1]) * a[2]

\* C6: the published (w, h) fits the body (w <= W, h <= H), has the native
\* ratio (here: within floating tolerance), and is maximal: h = H when
\* W/H > r and w = W otherwise.
C6_ContainFit ==
    playArea # Null =>
        LET w == playArea[1]
            h == playArea[2]
            W == Num(body[1])
            H == Num(body[2])
            wide == body[1] * canvas[2] > body[2] * canvas[1]
        IN  /\ RatLe(w, W)
            /\ RatLe(h, H)
            /\ Close(Rat(w[1] * canvas[2], w[2]), Rat(h[1] * canvas[1], h[2]))
            /\ w = W \/ h = H
            /\ wide => h = H
            /\ ~wide => w = W

\* C22: detectWindowResize answers true exactly when a size has been
\* computed since the last getNewWindowSize, that is when a getNewWindowSize
\* in its place would return a size and not null, and it leaves the slot
\* as it is.
C22_DetectIsPureQuery ==
    [][detectWindowResize =>
           /\ detectRet' = <<recalcs > 0>>
           /\ (recalcs > 0) = (playArea # Null)
           /\ playArea' = playArea
           /\ recalcs' = recalcs
           /\ sizeRet' = sizeRet
      ]_vars

\* after a poll that returned null a size was computed, and the query
\* answered true with that size still pending
C22_Witness ==
    /\ detectRet = <<TRUE>>
    /\ sizeRet = <<Null>>
    /\ recalcs > 0
    /\ playArea = recalculateCanvasSize(canvas, body)

\* C23: before run() no size is pending and none has been returned; from the
\* return of run() to the first getNewWindowSize after it a size computed
\* from the current host area is pending, and that first getNewWindowSize
\* returns a size.
C23_StartupPublishes ==
    /\ runState = "init" =>
           /\ playArea = Null
           /\ sizeRet \in {<<>>, <<Null>>}
    /\ (runState = "done" /\ firstPoll = <<>>) =>
           playArea = recalculateCanvasSize(canvas, body)
    /\ firstPoll # <<>> => firstPoll[1] # Null

\* no resize event was handled (the one computation before the poll is that
\* of run()), and the first poll after run() returned the size of the host area
C23_Witness ==
    /\ runState = "done"
    /\ SmallHost
    /\ firstPoll = <<recalculateCanvasSize(canvas, body)>>
    /\ pollAfter = 1
    /\ sizeRet = firstPoll
    /\ playArea = Null

\* C17: on a mobile device whose browser has neither orientation API, run()
\* completes: the buttons are bound, the resize handler is installed, and
\* the startup size is pending until the first getNewWindowSize.
C17_SetupWithoutOrientationApi ==
    (mobile /\ orientationApi = "none" /\ runState # "init") =>
        /\ runState = "done"
        /\ bound = ButtonsOf(revision)
        /\ onresize
        /\ sizeRet = <<>> => playArea = recalculateCanvasSize(canvas, body)

\* ---------------------------------------------------------------------
\* Claims about the clipboard relay (SpecPaste)
\* ---------------------------------------------------------------------
\* the entry the relay is to store for the outcome o of a read
EntryOf(o) ==
    IF o.ok THEN [paste |-> o.value, error |-> ""]
    ELSE [paste |-> "", error |-> o.value]

\* C2: when the read of id settled with text t, the next getPasteBuffer(id)
\* returns t and removes the entry; a getPasteBuffer(id) that follows with
\* no settlement in between returns undefined.
C2_RoundTrip ==
    pasteRet # <<>> =>
        LET r == pasteRet[1]
        IN  /\ (r.took # <<>> /\ r.took[1].ok) =>
                   /\ r.out = [kind |-> "return", value |-> r.took[1].value]
                   /\ r.pages = [kind |-> "return", value |-> r.took[1].value]
            /\ settled[r.id] = <<>> => r.id \notin DOMAIN pasteBufferMap
            /\ r.took = <<>> => r.out.kind = "undefined" /\ r.pages.kind = "undefined"

\* the poll that took "hello"
C2_Witness ==
    /\ pasteRet # <<>>
    /\ pasteRet[1].took = <<[ok |-> TRUE, value |-> "hello"]>>
    /\ pasteRet[1].out = [kind |-> "return", value |-> "hello"]
    /\ pasteRet[1].id \notin DOMAIN pasteBufferMap

\* C3: the entry stored under an id is the outcome of the latest settled
\* read of that id, whatever was issued, settled or polled for the other
\* ids, and getPasteBuffer(i) returns or throws from i's own outcome.
C3_Isolation ==
    /\ \A j \in Ids :
           IF settled[j] = <<>>
           THEN j \notin DOMAIN pasteBufferMap
           ELSE /\ j \in DOMAIN pasteBufferMap
                /\ pasteBufferMap[j] = EntryOf(settled[j][1])
    /\ pasteRet # <<>> =>
           LET r == pasteRet[1]
           IN  IF r.took = <<>>
               THEN r.out.kind = "undefined" /\ r.pages.kind = "undefined"
               ELSE LET e == EntryOf(r.took[1])
                    IN  /\ r.out \in {[kind |-> "return", value |-> e.paste],
                                      [kind |-> "throw", value |-> e.error]}
                        /\ r.pages \in {[kind |-> "return", value |-> e.paste],
                                        [kind |-> "throw", value |-> "TypeError"]}

\* id 1 was polled and gave its text while a different outcome of id 2,
\* settled at the same time, stays stored
C3_Witness ==
    /\ pasteRet # <<>>
    /\ pasteRet[1].id = 1
    /\ pasteRet[1].out = [kind |-> "return", value |-> "hello"]
    /\ settled[2] = <<[ok |-> FALSE, value |-> "NotAllowedError"]>>
    /\ 2 \in DOMAIN pasteBufferMap
    /\ reads[1] > 0

\* C4: a read of id that fails, whatever it is rejected with, stores
\* {empty text, error} under id, and the next getPasteBuffer(id) removes the
\* entry and throws a failure carrying the stored error.
C4_FailureSurfaced ==
    /\ \A j \in Ids :
           (settled[j] # <<>> /\ ~settled[j][1].ok) =>
               /\ j \in DOMAIN pasteBufferMap
               /\ pasteBufferMap[j] = [paste |-> "", error |-> settled[j][1].value]
    /\ pasteRet # <<>> =>
           LET r == pasteRet[1]
           IN  (r.took # <<>> /\ ~r.took[1].ok) =>
                   r.out = [kind |-> "throw", value |-> r.took[1].value]

\* C10: getPasteBuffer(id) with no entry under id returns undefined and
\* leaves the store as it was; the empty text of a successful read is
\* returned as text.
C10_NotAvailable ==
    [][\A id \in Ids :
           getPasteBuffer(id) =>
               /\ id \notin DOMAIN pasteBufferMap =>
                      /\ pasteBufferMap' = pasteBufferMap
                      /\ pasteRet'[1].out = [kind |-> "undefined", value |-> ""]
                      /\ pasteRet'[1].pages = [kind |-> "undefined", value |-> ""]
               /\ settled[id] = <<[ok |-> TRUE, value |-> ""]>> =>
                      /\ pasteRet'[1].out = [kind |-> "return", value |-> ""]
                      /\ pasteRet'[1].pages = [kind |-> "return", value |-> ""]
      ]_vars

\* id 1 polled before its read settled, with an entry of id 2 in the store
C10_Witness ==
    /\ pasteRet # <<>>
    /\ pasteRet[1].id = 1
    /\ pasteRet[1].took = <<>>
    /\ pasteRet[1].out.kind = "undefined"
    /\ reads[1] > 0
    /\ 2 \in DOMAIN pasteBufferMap

\* what a poll is to give for the outcome o of a read
Delivered(o) ==
    IF o.ok THEN [kind |-> "return", value |-> o.value]
    ELSE [kind |-> "throw", value |-> o.value]

\* C11: an id used again before its entry was taken is last-write-wins: the
\* store holds one entry for the id, that of the read that settled last;
\* the next getPasteBuffer(id) gives what that entry holds and removes it,
\* and never what the entry it replaced held.
C11_IdReuseLastWriteWins ==
    /\ \A j \in Ids :
           overwritten[j] # <<>> =>
               /\ settled[j] # <<>>
               /\ j \in DOMAIN pasteBufferMap
               /\ pasteBufferMap[j] = EntryOf(settled[j][1])
    /\ pasteRet # <<>> =>
           LET r == pasteRet[1]
           IN  /\ r.lost # <<>> =>
                      /\ r.took # <<>>
                      /\ r.out \in {[kind |-> "return", value |-> EntryOf(r.took[1]).paste],
                                    [kind |-> "throw", value |-> EntryOf(r.took[1]).error]}
                      /\ r.pages.kind = "return" =>
                             r.pages.value = EntryOf(r.took[1]).paste
                      /\ EntryOf(r.lost[1]) # EntryOf(r.took[1]) =>
                             /\ r.out # Delivered(r.lost[1])
                             /\ r.pages # Delivered(r.lost[1])
               /\ (settled[r.id] = <<>>) =>
                      /\ r.id \notin DOMAIN pasteBufferMap
                      /\ overwritten[r.id] = <<>>

\* id 1 was read twice before any poll: the first read gave "hello", the
\* second failed, and the poll threw the failure
C11_Witness ==
    /\ pasteRet # <<>>
    /\ pasteRet[1].id = 1
    /\ pasteRet[1].lost = <<[ok |-> TRUE, value |-> "hello"]>>
    /\ pasteRet[1].took = <<[ok |-> FALSE, value |-> "NotAllowedError"]>>
    /\ pasteRet[1].out = [kind |-> "throw", value |-> "NotAllowedError"]
    /\ 1 \notin DOMAIN pasteBufferMap

\* C14: setPasteBuffer(id) itself leaves the store as it is; an entry appears
\* under an id, or changes, only in a step that settles a read of that id;
\* and while no read of id has settled since its last poll, a poll of id
\* returns undefined and stores nothing, however many reads are in flight.
C14_StoredOnlyOnSettle ==
    [][\A id \in Ids :
           /\ setPasteBuffer(id) => pasteBufferMap' = pasteBufferMap
           /\ (/\ id \in DOMAIN pasteBufferMap'
               /\ id \in DOMAIN pasteBufferMap => pasteBufferMap'[id] # pasteBufferMap[id]) =>
                  /\ reads[id] > 0
                  /\ reads'[id] = reads[id] - 1
                  /\ settled'[id] # <<>>
                  /\ pasteBufferMap'[id] = EntryOf(settled'[id][1])
           /\ (getPasteBuffer(id) /\ settled[id] = <<>>) =>
                  /\ pasteRet'[1].out.kind = "undefined"
                  /\ pasteRet'[1].pages.kind = "undefined"
                  /\ id \notin DOMAIN pasteBufferMap'
      ]_vars

\* two reads of id 1 are in flight, none has settled, the store is empty and
\* the poll of id 1 returned undefined
C14_Witness ==
    /\ reads[1] = 2
    /\ pasteBufferMap = <<>>
    /\ pasteRet # <<>>
    /\ pasteRet[1].id = 1
    /\ pasteRet[1].took = <<>>
    /\ pasteRet[1].out.kind = "undefined"

\* ---------------------------------------------------------------------
\* Claims about the buttons (SpecButtons)
\* ---------------------------------------------------------------------
\* the (key, code) table of the interface, by the class of the button
Configured ==
    [key_w |-> <<"w", "KeyW">>, key_a |-> <<"a", "KeyA">>,
     key_s |-> <<"s", "KeyS">>, key_d |-> <<"d", "KeyD">>,
     key_f |-> <<"f", "KeyF">>, key_c |-> <<"c", "KeyC">>,
     key_space |-> <<" ", "Space">>]

KeyEvent(type, class) ==
    [target |-> "canvas", type |-> type,
     key |-> Configured[class][1], code |-> Configured[class][2]]

\* C7: a press (mousedown or touchstart) on a bound button dispatches one
\* event on the canvas, a keydown with the button's (key, code), and no
\* keyup.
C7_PressKeyDown ==
    \A i \in 1..Len(inputs) :
        (inputs[i].bound /\ inputs[i].type \in {"mousedown", "touchstart"}) =>
            events[i] = <<KeyEvent("keydown", inputs[i].button.class)>>

\* a touchstart on the right C button after a mousedown on the left F button
C7_Witness ==
    /\ Len(inputs) = 2
    /\ inputs[1] = [button |-> [side |-> "left", class |-> "key_f"],
                    type |-> "mousedown", bound |-> TRUE]
    /\ inputs[2] = [button |-> [side |-> "right", class |-> "key_c"],
                    type |-> "touchstart", bound |-> TRUE]
    /\ events[1] = <<[target |-> "canvas", type |-> "keydown",
                      key |-> "f", code |-> "KeyF"]>>
    /\ events[2] = <<[target |-> "canvas", type |-> "keydown",
                      key |-> "c", code |-> "KeyC"]>>

\* C8: a release (mouseup, touchend or touchcancel) on a bound button
\* dispatches one event, a keyup with the button's (key, code), touchcancel
\* as touchend does; so the last event of a press followed by a release of
\* the same button is a keyup.
C8_ReleaseKeyUp ==
    \A i \in 1..Len(inputs) :
        (inputs[i].bound
         /\ inputs[i].type \in {"mouseup", "touchend", "touchcancel"}) =>
            /\ events[i] = <<KeyEvent("keyup", inputs[i].button.class)>>
            /\ (i > 1 /\ inputs[i - 1].button = inputs[i].button
                /\ inputs[i - 1].bound
                /\ inputs[i - 1].type \in {"mousedown", "touchstart"}) =>
                   LET all == events[i - 1] \o events[i]
                   IN  all[Len(all)].type = "keyup"

\* a touch on the left space button that the browser cancels
C8_Witness ==
    /\ Len(inputs) = 2
    /\ inputs[1] = [button |-> [side |-> "left", class |-> "key_space"],
                    type |-> "touchstart", bound |-> TRUE]
    /\ inputs[2] = [button |-> [side |-> "left", class |-> "key_space"],
                    type |-> "touchcancel", bound |-> TRUE]
    /\ events[2] = <<[target |-> "canvas", type |-> "keyup",
                      key |-> " ", code |-> "Space"]>>

\* the (key, code) pairs of the interface
KeyTable ==
    {<<"w", "KeyW">>, <<"a", "KeyA">>, <<"s", "KeyS">>, <<"d", "KeyD">>,
     <<" ", "Space">>, <<"f", "KeyF">>, <<"c", "KeyC">>}

\* C15: every event the handlers dispatch is a keydown or a keyup, carries a
\* (key, code) pair of the table, and is dispatched on the canvas.
C15_EnumeratedEvents ==
    \A i \in 1..Len(events) :
        \A j \in 1..Len(events[i]) :
            /\ events[i][j].type \in {"keydown", "keyup"}
            /\ <<events[i][j].key, events[i][j].code>> \in KeyTable
            /\ events[i][j].target = "canvas"

\* the first revision: the left W button went down and the right space
\* button came up
C15_Witness ==
    /\ revision = "wasd"
    /\ Len(events) = 2
    /\ inputs[1].button = [side |-> "left", class |-> "key_w"]
    /\ events[1] = <<[target |-> "canvas", type |-> "keydown",
                      key |-> "w", code |-> "KeyW"]>>
    /\ inputs[2].button = [side |-> "right", class |-> "key_space"]
    /\ events[2] = <<[target |-> "canvas", type |-> "keyup",
                      key |-> " ", code |-> "Space"]>>

\* ---------------------------------------------------------------------
\* Claims about the sticks (SpecSticks)
\* ---------------------------------------------------------------------
\* C24: a release on a bound button synthesizes the key-up of its key when no
\* key-down of that key came before it (it is the first interaction, or the
\* interaction before it was a release, was on another key or found no
\* handler), and also when the interaction before it was a press of the other
\* button of the same key, which is then still held: the last event for the
\* key is a key-up although a button of the key is down.
C24_NoPressState ==
    \A i \in 1..Len(inputs) :
        LET this == inputs[i]
            keyUp == <<KeyEvent("keyup", this.button.class)>>
        IN  (this.bound /\ this.type \in ReleaseTypes) =>
                /\ Len(inputs) = 1 => events[i] = keyUp
                /\ (i = 2 /\ (\/ ~inputs[1].bound
                               \/ inputs[1].type \in ReleaseTypes
                               \/ inputs[1].button.class # this.button.class)) =>
                       events[i] = keyUp
                /\ (i = 2 /\ inputs[1].bound
                     /\ inputs[1].type \in PressTypes
                     /\ inputs[1].button.class = this.button.class
                     /\ inputs[1].button.side # this.button.side) =>
                       /\ events[1] = <<KeyEvent("keydown", this.button.class)>>
                       /\ events[i] = keyUp

\* the left C button is pressed and held, and the release of the right C
\* button synthesized the key-up of c
C24_Witness ==
    /\ Len(inputs) = 2
    /\ inputs[1] = [button |-> [side |-> "left", class |-> "key_c"],
                    type |-> "touchstart", bound |-> TRUE]
    /\ inputs[2] = [button |-> [side |-> "right", class |-> "key_c"],
                    type |-> "touchend", bound |-> TRUE]
    /\ events = <<<<[target |-> "canvas", type |-> "keydown",
                     key |-> "c", code |-> "KeyC"]>>,
                  <<[target |-> "canvas", type |-> "keyup",
                     key |-> "c", code |-> "KeyC"]>>>>

\* C9: after an orientation change that recreates the joysticks both axis
\* values are exactly 0, also when a drag had moved an axis away from 0.
C9_FlipResetsAxes ==
    [][(listening /\ orientation' # orientation) =>
           sticksPosition' = <<Num(0), Num(0)>>]_vars

\* C12: the axis of a stick is exactly 0 as long as no move handler of the
\* stick has run since startup, and exactly 0 after the stick's end handler
\* has run, whatever the moves before it, until its next move.
C12_AxisZeroAtRest ==
    \A k \in {1, 2} :
        lastEvent[k] \in {"none", "end"} => sticksPosition[k] = Num(0)

\* the left stick was read at -1/2 during a drag and the drag has ended; the
\* right stick has not moved since startup
C12_Witness ==
    /\ lastEvent = <<"end", "none">>
    /\ sticksRet = <<<<Rat(0 - 1, 2), Num(0)>>>>
    /\ sticksPosition = <<Num(0), Num(0)>>

\* C19: once the sticks are set up, and after every orientation change, one
\* pair of stick widgets is in the page, the pair window.joysticks holds, and
\* both are of the preset of the current orientation: 100 in landscape, 200
\* in portrait.
C19_OnePairOfCurrentPreset ==
    listening =>
        /\ joysticks # Null
        /\ Len(joysticks) = 2
        /\ widgets = 2
        /\ \A k \in {1, 2} :
               joysticks[k].size =
                   IF SubSeq(orientation.type, 1, 9) = Landscape THEN 100 ELSE 200

\* the device was turned to landscape-secondary during a drag of the left
\* stick, in a browser with the legacy API
C19_Witness ==
    /\ listening
    /\ orientationApi = "window"
    /\ orientation.type = Landscape \o Secondary
    /\ lastEvent[1] = "move"
    /\ dragging = {}
    /\ widgets = 2
    /\ joysticks = <<[size |-> 100, lock |-> "x"], [size |-> 100, lock |-> "y"]>>

\* ---------------------------------------------------------------------
\* Claims about the viewport of a device that turns (SpecTurn)
\* ---------------------------------------------------------------------
\* C13: an orientation change on a page whose orientation listener is
\* installed computes the viewport anew: after it the pending size is the one
\* computed from the body as it is after the turn.
C13_TurnComputesViewport ==
    [][(runState = "done" /\ listening /\ orientation' # orientation) =>
           playArea' = recalculateCanvasSize(canvas, body')]_vars

\* ---------------------------------------------------------------------
\* Claims about the reads of the axes (SpecRead)
\* ---------------------------------------------------------------------
\* C16: getSticksPosition returns the two axis values and consumes nothing:
\* it leaves the axes, the pending size and the clipboard store as they are,
\* so that a call that follows it with no stick event in between returns
\* the same pair.
C16_ReadOfAxesIsPure ==
    [][getSticksPosition =>
           /\ sticksRet' = <<sticksPosition>>
           /\ sticksPosition' = sticksPosition
           /\ playArea' = playArea
           /\ pasteBufferMap' = pasteBufferMap
           /\ (sticksRet = <<sticksPosition>>) => sticksRet' = sticksRet
      ]_vars

\* the axes were read during a drag of the left stick, with a size pending
\* and a text stored, and all three are as they were
C16_Witness ==
    /\ sticksPosition = <<Rat(0 - 1, 2), Num(0)>>
    /\ sticksRet = <<sticksPosition>>
    /\ playArea = recalculateCanvasSize(canvas, body)
    /\ 1 \in DOMAIN pasteBufferMap

\* C21: a move or an end of the left stick changes the first axis alone and
\* a move or an end of the right stick the second alone; neither changes the
\* pending size or the clipboard store.
C21_AxesIndependent ==
    [][\A k \in {1, 2} :
           (StickEnd(k)
            \/ /\ k \in dragging
               /\ \E c \in VectorComponents, d \in Distances(joysticks[k].size) :
                      StickMove(k, c, d)) =>
               /\ sticksPosition'[3 - k] = sticksPosition[3 - k]
               /\ playArea' = playArea
               /\ pasteBufferMap' = pasteBufferMap
      ]_vars

\* the left stick is at -1/2 and the right one, moved after it, at 1, with a
\* size pending and a text stored
C21_Witness ==
    /\ sticksPosition = <<Rat(0 - 1, 2), Num(1)>>
    /\ lastEvent = <<"move", "move">>
    /\ dragging = {1, 2}
    /\ playArea # Null
    /\ 1 \in DOMAIN pasteBufferMap

\* ---------------------------------------------------------------------
\* Claims about the scene parameter (SpecUrl)
\* ---------------------------------------------------------------------
\* the values the URL gives the parameter scene ("" where it has no "=")
SceneValues ==
    {IF query[i].value = <<>> THEN <<>> ELSE query[i].value[1] :
        i \in {j \in DOMAIN query : query[j].name = Scene}}

\* C18: getSceneFromUrl returns a value the URL gives the parameter scene
\* when it has that parameter, and the four characters null when it has
\* not, whatever other parameters it has.
C18_SceneOrNull ==
    sceneRet # <<>> =>
        IF SceneValues = {}
        THEN sceneRet[1] = <<"n", "u", "l", "l">>
        ELSE sceneRet[1] \in SceneValues

\* the URL has the parameters x=map and scenes=a+b and no parameter scene
C18_Witness ==
    /\ query = <<[name |-> <<"x">>, value |-> <<<<"m", "a", "p">>>>],
                 [name |-> <<"s", "c", "e", "n", "e", "s">>,
                  value |-> <<<<"a", " ", "b">>>>]>>
    /\ sceneRet = <<<<"n", "u", "l", "l">>>>

\* ---------------------------------------------------------------------
\* Claims about the classification of the orientation (SpecClassify)
\* ---------------------------------------------------------------------
\* C20: the sticks created at setup and at every orientation change are of
\* the landscape preset exactly when, with screen.orientation, the type of
\* the current orientation begins with "landscape" and, with the legacy
\* window.orientation, its angle is 90 or -90.
C20_Classification ==
    listening =>
        LET landscape ==
                IF orientationApi = "screen"
                THEN /\ Len(orientation.type) >= 9
                     /\ \A i \in 1..9 : orientation.type[i] = Landscape[i]
                ELSE orientation.angle \in {90, 0 - 90}
        IN  \A k \in {1, 2} :
                joysticks[k].size =
                    IF landscape THEN STICK_SIZE_LANDSCAPE ELSE STICK_SIZE_PORTRAIT

\* the legacy angle is 180 after a turn that ended a drag of the left stick:
\* the sticks are of the portrait preset
C20_Witness ==
    /\ listening
    /\ orientationApi = "window"
    /\ orientation.angle = 180
    /\ lastEvent[1] = "move"
    /\ dragging = {}
    /\ joysticks[1].size = STICK_SIZE_PORTRAIT

====
